---- MODULE Spec2Model ----
(***************************************************************************)
(* Model of src/server.py: the upload endpoint process_files, the text      *)
(* extractor extract_text_from_file, the JSON coercer clean_and_parse_json  *)
(* and the completion client call_openai_api.                               *)
(*                                                                          *)
(* Two representations of strings are used.                                 *)
(*  - Uploaded text, the combined context and the prompts are measured in   *)
(*    characters: a text is [len, ws, br], its length, the number of        *)
(*    leading whitespace characters, and whether its first character is     *)
(*    '['.  Concatenation, slicing, strip()-emptiness and startswith('[')   *)
(*    are exact on this representation.                                     *)
(*  - Completion texts are sequences of lexemes [k, v]: punctuation,        *)
(*    string literals, numbers, whitespace, prose words, markdown fences.   *)
(***************************************************************************)
EXTENDS Integers, Sequences, FiniteSets, TLC

(***************************************************************************)
(* Program constants                                                        *)
(***************************************************************************)
MAX_TEXT_SIZE_BYTES == 5 * 1024 * 1024
MAX_API_CONTEXT_SIZE == 8000
MAX_PDF_PAGES == 1000
ALLOWED_EXTENSIONS == {"pdf", "txt"}
\* quiz_data shorter than this is replaced by the fallback question
MIN_QUIZ_SIZE == 5
\* the fallback content keeps this many blocks of the raw completion
FALLBACK_BLOCKS == 5
\* options a question needs to pass the filter
MIN_OPTIONS == 4

(***************************************************************************)
(* Bounds of the model                                                      *)
(***************************************************************************)
MaxFiles == 2
MaxCoreLen == 3
MaxPromptLen == 7

(***************************************************************************)
(* Character-measured texts                                                 *)
(***************************************************************************)
Txt(n, w, b) == [len |-> n, ws |-> w, br |-> (b /\ w = 0 /\ n > 0)]
EmptyTxt == Txt(0, 0, FALSE)
IsBlank(t) == t.ws = t.len
StartsWithBracket(t) == t.len > 0 /\ t.ws = 0 /\ t.br
Concat(a, b) ==
  [len |-> a.len + b.len,
   ws  |-> IF IsBlank(a) THEN a.len + b.ws ELSE a.ws,
   br  |-> IF a.len > 0 THEN a.br ELSE b.br]
Min(a, b) == IF a < b THEN a ELSE b
\* F(v), with v evaluated once: the value of a local variable
Bind(v, F(_)) == CHOOSE y \in {F(x) : x \in {v}} : TRUE
Prefix(t, n) ==
  LET m == Min(t.len, n) IN
  [len |-> m, ws |-> Min(t.ws, m), br |-> (t.br /\ m > 0)]
RECURSIVE Digits(_)
Digits(n) == IF n < 10 THEN 1 ELSE 1 + Digits(n \div 10)

(***************************************************************************)
(* Lexemes of a completion text                                             *)
(***************************************************************************)
P(c) == [k |-> "punct", v |-> c]
S(c) == [k |-> "str", v |-> c]
CS(c) == [k |-> "cstr", v |-> c]
N(c) == [k |-> "num", v |-> c]
W(c) == [k |-> "word", v |-> c]
SP == [k |-> "ws", v |-> "SP"]
NLNL == [k |-> "ws", v |-> "NLNL"]
NBSP == [k |-> "ws", v |-> "NBSP"]
FENCE == [k |-> "fence", v |-> "FENCE"]
\* an integer literal of more than 4300 digits
BIGINT == [k |-> "bigint", v |-> "9..9"]
\* brackets nested beyond the recursion limit of the interpreter
DEEP == [k |-> "deep", v |-> "[[..]]"]

(***************************************************************************)
(* Parsed JSON values.  Every value is [t, s, items]; a dict is a sequence  *)
(* of pairs (a pair holds its key in s and its value in items[1]).          *)
(***************************************************************************)
None == [t |-> "None", s |-> "", items |-> <<>>]
StrVal(c) == [t |-> "str", s |-> c, items |-> <<>>]
NumVal(c) == [t |-> "num", s |-> c, items |-> <<>>]
ListVal(xs) == [t |-> "list", s |-> "", items |-> xs]
DictVal(ps) == [t |-> "dict", s |-> "", items |-> ps]
Pair(key, x) == [t |-> "pair", s |-> key, items |-> <<x>>]
isinstance(x, ty) == x.t = ty
Truthy(x) ==
  CASE x.t = "None" -> FALSE
    [] x.t = "str"  -> x.s # ""
    [] x.t = "num"  -> x.s # "0"
    [] OTHER        -> x.items # <<>>
HasKey(d, key) == \E i \in 1..Len(d.items) : d.items[i].s = key
\* dict.get(key): the value, or None when the key is absent
Get(d, key) ==
  IF HasKey(d, key)
  THEN d.items[CHOOSE i \in 1..Len(d.items) : d.items[i].s = key].items[1]
  ELSE None
\* d[key] = x on a dict under construction: a repeated key keeps its place
DictSet(ps, key, x) ==
  IF \E i \in 1..Len(ps) : ps[i].s = key
  THEN [i \in 1..Len(ps) |-> IF ps[i].s = key THEN Pair(key, x) ELSE ps[i]]
  ELSE Append(ps, Pair(key, x))

(***************************************************************************)
(* json.loads on a lexeme sequence, following the scanner of the json       *)
(* module.  A result is [err, val, end]; err = "" on success, else the      *)
(* message of the JSONDecodeError, or the name of another exception.        *)
(***************************************************************************)
E_VALUE == "Expecting value"
\* (3.13 words this as an illegal trailing comma when the offending
\* character is the closing brace; neither wording names a delimiter)
E_NAME  == "Expecting property name enclosed in double quotes"
E_COLON == "Expecting ':' delimiter"
E_COMMA == "Expecting ',' delimiter"
E_EXTRA == "Extra data"
JSONDecodeErrors == {E_VALUE, E_NAME, E_COLON, E_COMMA, E_EXTRA}
Ok(x, e) == [err |-> "", val |-> x, end |-> e]
Err(m) == [err |-> m, val |-> None, end |-> 0]

\* the index of the first lexeme from i on that is not whitespace
RECURSIVE SkipWs(_, _)
SkipWs(s, i) == IF i <= Len(s) /\ s[i].k = "ws" THEN SkipWs(s, i + 1) ELSE i
At(s, i, tok) == i <= Len(s) /\ s[i] = tok

RECURSIVE scan_once(_, _), ObjectLoop(_, _, _), ArrayLoop(_, _, _)
JSONObject(s, end) ==
  Bind(SkipWs(s, end), LAMBDA j :
    IF At(s, j, P("}")) THEN Ok(DictVal(<<>>), j + 1)
    ELSE IF j > Len(s) \/ s[j].k # "str" THEN Err(E_NAME)
    ELSE ObjectLoop(s, j, <<>>))
\* one member of an object, its key at j, and the members after it
ObjectLoop(s, j, pairs) ==
  Bind(SkipWs(s, j + 1), LAMBDA k1 :
    IF ~At(s, k1, P(":")) THEN Err(E_COLON)
    ELSE
      Bind(scan_once(s, SkipWs(s, k1 + 1)), LAMBDA r :
        IF r.err # "" THEN r
        ELSE
          Bind([ps |-> DictSet(pairs, s[j].v, r.val), k3 |-> SkipWs(s, r.end)],
               LAMBDA b :
            IF At(s, b.k3, P("}")) THEN Ok(DictVal(b.ps), b.k3 + 1)
            ELSE IF ~At(s, b.k3, P(",")) THEN Err(E_COMMA)
            ELSE
              Bind(SkipWs(s, b.k3 + 1), LAMBDA k4 :
                IF k4 > Len(s) \/ s[k4].k # "str" THEN Err(E_NAME)
                ELSE ObjectLoop(s, k4, b.ps)))))
JSONArray(s, end) ==
  Bind(SkipWs(s, end), LAMBDA j :
    IF At(s, j, P("]")) THEN Ok(ListVal(<<>>), j + 1)
    ELSE ArrayLoop(s, j, <<>>))
\* one item of an array, starting at j, and the items after it
ArrayLoop(s, j, xs) ==
  Bind(scan_once(s, j), LAMBDA r :
    IF r.err # "" THEN r
    ELSE
      Bind([ys |-> Append(xs, r.val), k1 |-> SkipWs(s, r.end)], LAMBDA b :
        IF At(s, b.k1, P("]")) THEN Ok(ListVal(b.ys), b.k1 + 1)
        ELSE IF ~At(s, b.k1, P(",")) THEN Err(E_COMMA)
        ELSE Bind(SkipWs(s, b.k1 + 1), LAMBDA k2 : ArrayLoop(s, k2, b.ys))))
scan_once(s, i) ==
  IF i > Len(s) THEN Err(E_VALUE)
  ELSE
    CASE s[i].k = "str"    -> Ok(StrVal(s[i].v), i + 1)
      [] s[i] = P("{")     -> JSONObject(s, i + 1)
      [] s[i] = P("[")     -> JSONArray(s, i + 1)
      [] s[i].k = "num"    -> Ok(NumVal(s[i].v), i + 1)
      [] s[i].k = "bigint" -> Err("ValueError")
      [] s[i].k = "deep"   -> Err("RecursionError")
      [] OTHER             -> Err(E_VALUE)
\* json.loads(s): one value, with nothing but whitespace around it
json_loads(s) ==
  Bind(scan_once(s, SkipWs(s, 1)), LAMBDA r :
    IF r.err # "" THEN r
    ELSE IF SkipWs(s, r.end) # Len(s) + 1 THEN Err(E_EXTRA)
    ELSE r)

(***************************************************************************)
(* clean_and_parse_json                                                     *)
(***************************************************************************)
\* the first index from i on that holds no lexeme of the kind (Len + 1 if
\* there is none), and the last index up to i likewise (0 if none)
SkipKind(s, i, kind) ==
  IF \E j \in i..Len(s) : s[j].k # kind
  THEN CHOOSE j \in i..Len(s) :
         s[j].k # kind /\ \A m \in i..(j - 1) : s[m].k = kind
  ELSE Len(s) + 1
SkipKindBack(s, i, kind) ==
  IF \E j \in 1..i : s[j].k # kind
  THEN CHOOSE j \in 1..i :
         s[j].k # kind /\ \A m \in (j + 1)..i : s[m].k = kind
  ELSE 0
strip(s) ==
  Bind(s, LAMBDA t : SubSeq(t, SkipKind(t, 1, "ws"), SkipKindBack(t, Len(t), "ws")))
\* lines 134-140: the opening fence goes with its language tag and the
\* whitespace after it, the closing fence goes alone
StripFences(text) ==
  Bind(IF text # <<>> /\ text[1] = FENCE
       THEN SubSeq(text, SkipKind(text, SkipKind(text, 2, "word"), "ws"),
                   Len(text))
       ELSE text,
       LAMBDA t1 :
         strip(IF t1 # <<>> /\ t1[Len(t1)] = FENCE
               THEN SubSeq(t1, 1, Len(t1) - 1)
               ELSE t1))
\* a lexeme in which text.find(start_char) / text.rfind(end_char) hits
HoldsOpen(tok, is_list) ==
  tok = P(IF is_list THEN "[" ELSE "{") \/ (is_list /\ tok.k = "deep")
HoldsClose(tok, is_list) ==
  tok = P(IF is_list THEN "]" ELSE "}") \/ (is_list /\ tok.k = "deep")
\* -1 stands for not found as in str.find; indices are 1-based otherwise
Find(text, is_list) ==
  Bind({i \in 1..Len(text) : HoldsOpen(text[i], is_list)}, LAMBDA hits :
    IF hits = {} THEN -1 ELSE CHOOSE i \in hits : \A j \in hits : i <= j)
RFind(text, is_list) ==
  Bind({i \in 1..Len(text) : HoldsClose(text[i], is_list)}, LAMBDA hits :
    IF hits = {} THEN -1 ELSE CHOOSE i \in hits : \A j \in hits : j <= i)
\* lines 156-158: quotes and no-break spaces normalised, control
\* characters (the newlines among them) deleted
CleanLexeme(h) ==
  CASE h.k = "cstr" -> S(h.v)
    [] h = NBSP     -> SP
    [] OTHER        -> h
IsControl(h) == h = NLNL
CleanContent(s) ==
  Bind(SelectSeq(s, LAMBDA h : ~IsControl(h)), LAMBDA kept :
    [i \in 1..Len(kept) |-> CleanLexeme(kept[i])])
\* re.sub(r',\s*([}\]])', r'\1', content): a comma, and the whitespace
\* after it, goes when a closing bracket follows
IsCloser(tok) == tok = P("}") \/ tok = P("]")
CommaMatches(s, c) ==
  /\ s[c] = P(",")
  /\ Bind(SkipKind(s, c + 1, "ws"), LAMBDA j : j <= Len(s) /\ IsCloser(s[j]))
CommaRemoved(s, i) ==
  \/ CommaMatches(s, i)
  \/ /\ s[i].k = "ws"
     /\ Bind(SkipKindBack(s, i, "ws"), LAMBDA c : c >= 1 /\ CommaMatches(s, c))
FixCommas(s) ==
  Bind(SelectSeq([i \in 1..Len(s) |-> i], LAMBDA i : ~CommaRemoved(s, i)),
       LAMBDA keep : [n \in 1..Len(keep) |-> s[keep[n]]])
RepairRuleApplies(err) == err = E_COMMA \/ err = E_EXTRA
\* the outcome of one call: the exception that escapes (empty when the
\* call returns), the returned value, and the number of json.loads attempts
Returned(x, n) == [exc |-> "", val |-> x, attempts |-> n]
Raised(e, n) == [exc |-> e, val |-> None, attempts |-> n]
\* lines 160-176, on the isolated and cleaned content
ParseWithRepair(json_content) ==
  Bind(json_loads(json_content), LAMBDA r1 :
    IF r1.err = "" THEN Returned(r1.val, 1)
    ELSE IF r1.err \notin JSONDecodeErrors THEN Raised(r1.err, 1)
    ELSE IF ~RepairRuleApplies(r1.err) THEN Returned(None, 1)
    ELSE
      Bind(json_loads(FixCommas(json_content)), LAMBDA r2 :
        IF r2.err = "" THEN Returned(r2.val, 2)
        ELSE IF r2.err \notin JSONDecodeErrors THEN Raised(r2.err, 2)
        ELSE Returned(None, 2)))
clean_and_parse_json(text, is_list) ==
  IF text = <<>> THEN Returned(None, 0)
  ELSE
    Bind(StripFences(strip(text)), LAMBDA t :
      Bind([start_index |-> Find(t, is_list), end_index |-> RFind(t, is_list)],
           LAMBDA at :
        IF \/ at.start_index = -1
           \/ at.end_index = -1
           \/ at.end_index < at.start_index
        THEN Returned(None, 0)
        ELSE
          Bind(CleanContent(SubSeq(t, at.start_index, at.end_index)),
               ParseWithRepair)))

(***************************************************************************)
(* extract_text_from_file                                                   *)
(*                                                                          *)
(* An uploaded file: its name, the extension after the last dot (lower      *)
(* case, empty without a dot), the length of secure_filename(name), whether *)
(* reading it raises; for a TXT file the decodable characters followed by   *)
(* `bad` undecodable bytes; for a PDF whether the reader rejects it, its    *)
(* page count, and its pages: pages text_from.. (0-based) yield `page`,     *)
(* earlier pages yield nothing (empty text, or an exception if page_fail).  *)
(***************************************************************************)
TRUNC_EXTRACT_MARK == Txt(56, 1, FALSE)
PagesNote(total_pages, pages_to_process) ==
  Txt(47 + Digits(total_pages) + Digits(pages_to_process), 1, FALSE)
NEWLINE == Txt(1, 1, FALSE)
PageText(f, i) == IF i >= f.text_from THEN f.page ELSE EmptyTxt
PageRaises(f, i) == i < f.text_from /\ f.page_fail
\* lines 91-103: the loop over the pages, from page i on.  A page that
\* raises (line 101) or yields no text (line 95) leaves text as it is, and
\* text, checked on the page before, is within the limit of line 98: the
\* pages before text_from are passed over in one step.
RECURSIVE PdfLoop(_, _, _, _)
PdfLoop(f, i, pages_to_process, text) ==
  IF i >= pages_to_process THEN text
  ELSE IF PageRaises(f, i) \/ PageText(f, i).len = 0
  THEN PdfLoop(f, Min(f.text_from, pages_to_process), pages_to_process, text)
  ELSE
    LET t1 == Concat(Concat(text, PageText(f, i)), NEWLINE) IN
    IF t1.len > MAX_API_CONTEXT_SIZE * 2
    THEN Concat(Prefix(t1, MAX_API_CONTEXT_SIZE * 2), TRUNC_EXTRACT_MARK)
    ELSE PdfLoop(f, i + 1, pages_to_process, t1)
\* every diagnostic the extractor builds starts with '['
Diagnostic(n) == Txt(n, 0, TRUE)
ExtractTxt(f) ==
  LET nbytes == f.text.len + f.bad
      kept == IF nbytes > MAX_TEXT_SIZE_BYTES
              THEN Prefix(f.text, MAX_TEXT_SIZE_BYTES)
              ELSE f.text
  IN kept
ExtractPdf(f) ==
  IF f.reader_raises THEN Diagnostic(75 + f.name_len + 20)
  ELSE
    LET total_pages == f.total_pages
        pages_to_process == Min(total_pages, MAX_PDF_PAGES)
        looped == PdfLoop(f, 0, pages_to_process, EmptyTxt)
        text == IF pages_to_process < total_pages
                THEN Concat(looped, PagesNote(total_pages, pages_to_process))
                ELSE looped
    IN
    IF ~IsBlank(text) THEN text ELSE Diagnostic(81 + f.name_len)
\* the outcome of a call: raised (seek/read failed, lines 71-72) or the text
extract_text_from_file(f, pdf_support) ==
  IF f.read_raises THEN [raised |-> TRUE, text |-> EmptyTxt]
  ELSE
    [raised |-> FALSE,
     text |->
       CASE f.ext = "txt"                  -> ExtractTxt(f)
         [] f.ext = "pdf" /\ pdf_support   -> ExtractPdf(f)
         [] f.ext = "pdf" /\ ~pdf_support  -> Diagnostic(73)
         [] OTHER                          -> Diagnostic(31 + 3)]
allowed_file(f) == f.has_dot /\ f.ext \in ALLOWED_EXTENSIONS

TxtFile(name, nlen, text, bad) ==
  [filename |-> name, name_len |-> nlen, has_dot |-> TRUE, ext |-> "txt",
   secure_len |-> nlen, read_raises |-> FALSE, text |-> text, bad |-> bad,
   reader_raises |-> FALSE, total_pages |-> 0, text_from |-> 0,
   page_fail |-> FALSE, page |-> EmptyTxt]
PdfFile(name, nlen, total, from, fail, page) ==
  [filename |-> name, name_len |-> nlen, has_dot |-> TRUE, ext |-> "pdf",
   secure_len |-> nlen, read_raises |-> FALSE, text |-> EmptyTxt, bad |-> 0,
   reader_raises |-> FALSE, total_pages |-> total, text_from |-> from,
   page_fail |-> fail, page |-> page]
\* the uploads the model draws from
F_NOTES    == TxtFile("notes.txt", 9, Txt(2000, 0, FALSE), 0)
F_BOOK     == TxtFile("book.txt", 8, Txt(9000, 0, FALSE), 3)
F_BINARY   == TxtFile("binary.txt", 10, EmptyTxt, 12)
F_SCAN     == PdfFile("scan.pdf", 8, 3, 3, FALSE, EmptyTxt)
F_LONGSCAN == PdfFile("longscan.pdf", 12, MAX_PDF_PAGES + 1, MAX_PDF_PAGES + 1,
                      TRUE, EmptyTxt)
F_SLIDES   == PdfFile("slides.pdf", 10, 40, 1, FALSE, Txt(900, 0, FALSE))
F_DOC      == [TxtFile("essay.doc", 9, Txt(100, 0, FALSE), 0)
                 EXCEPT !.ext = "doc"]
F_UNREAD   == [TxtFile("gone.txt", 8, Txt(100, 0, FALSE), 0)
                 EXCEPT !.read_raises = TRUE]
F_NONAME   == [TxtFile("", 0, EmptyTxt, 0) EXCEPT !.has_dot = FALSE, !.ext = ""]
FileSet == {F_NOTES, F_BOOK, F_BINARY, F_SCAN, F_LONGSCAN, F_SLIDES, F_DOC,
            F_UNREAD, F_NONAME}
RECURSIVE SeqsUpTo(_, _)
SeqsUpTo(A, n) ==
  IF n = 0 THEN {<<>>}
  ELSE LET R == SeqsUpTo(A, n - 1) IN
       R \cup {Append(q, a) : q \in {r \in R : Len(r) = n - 1}, a \in A}


(***************************************************************************)
(* Completion texts the external API is taken to answer with                *)
(***************************************************************************)
MaxParagraphs == 6
MaxBlocks == 6
MaxQuestions == 6

RECURSIVE Join(_, _)
\* the lexeme sequences of xs separated by sep
Join(xs, sep) ==
  IF xs = <<>> THEN <<>>
  ELSE IF Len(xs) = 1 THEN xs[1]
  ELSE xs[1] \o sep \o Join(Tail(xs), sep)
ArrayText(xs) == <<P("[")>> \o Join(xs, <<P(",")>>) \o <<P("]")>>
ObjectText(members) == <<P("{")>> \o Join(members, <<P(",")>>) \o <<P("}")>>
Member(key, x) == <<S(key), P(":")>> \o x
\* an explanation object with n paragraphs
ExplObject(n) ==
  ObjectText(<<Member("topic", <<S("t")>>),
               Member("content", ArrayText([i \in 1..n |-> <<S("p")>>]))>>)
\* the same, fenced, with a comma before the closing brace
ExplFencedComma(n) ==
  <<FENCE, W("json"), NLNL>>
  \o SubSeq(ExplObject(n), 1, Len(ExplObject(n)) - 1) \o <<P(","), P("}")>>
  \o <<NLNL, FENCE>>
\* prose of n blocks separated by blank lines
Prose(n) == Join([i \in 1..n |-> <<W("x")>>], <<NLNL>>)
ExplanationTexts ==
  {ExplObject(n) : n \in 4..MaxParagraphs}
  \cup {Prose(n) : n \in 1..MaxBlocks}
  \cup {ExplFencedComma(5),
        <<P("{"), P("}")>>,
        ObjectText(<<Member("topic", <<S("t")>>), Member("content", <<DEEP>>)>>),
        ObjectText(<<Member("topic", <<BIGINT>>)>>),
        <<>>}
\* one question object: kind "ok" is the prompted shape, the others depart
\* from it in one field
Options(n) == ArrayText([i \in 1..n |-> <<S("o")>>])
Question(kind) ==
  ObjectText(
    <<Member("question", IF kind = "numq" THEN <<N("-1")>> ELSE <<S("q")>>),
      Member("options", Options(CASE kind = "three" -> 3
                                  [] kind = "five" -> 5
                                  [] OTHER -> 4))>>
    \o (IF kind = "noanswer" THEN <<>>
        ELSE <<Member("correctAnswer",
                      IF kind = "five" THEN <<S("E")>> ELSE <<S("A")>>)>>))
QuestionKinds == {"ok", "three", "five", "noanswer", "numq"}
\* n questions, all of kind ok except the second, of kind odd
Quiz(n, odd) ==
  ArrayText([i \in 1..n |-> Question(IF i = 2 THEN odd ELSE "ok")])
QuizTexts ==
  {Quiz(n, odd) : n \in 4..MaxQuestions, odd \in QuestionKinds}
  \cup {<<P("["), P("]")>>,
        <<W("x"), SP>> \o Quiz(5, "ok") \o <<P(","), P("]")>>,
        <<FENCE, W("json"), NLNL>> \o Quiz(5, "ok") \o <<NLNL, FENCE>>,
        ObjectText(<<Member("quiz", Quiz(5, "ok"))>>),
        <<DEEP>>,
        <<P("["), BIGINT, P("]")>>,
        Prose(2),
        <<>>}
\* what client.chat.completions.create and the read of
\* response.choices[0].message.content can produce: an exception, or the
\* content, which may be None
ApiRaises == [raises |-> TRUE, none |-> TRUE, text |-> <<>>]
ApiContent(t) == [raises |-> FALSE, none |-> FALSE, text |-> t]
ApiNoContent == [raises |-> FALSE, none |-> TRUE, text |-> <<>>]
ApiOutcomes(tag) ==
  {ApiRaises, ApiNoContent}
  \cup {ApiContent(t) :
          t \in CASE tag = "explanation" -> ExplanationTexts
                  [] tag = "quiz" -> QuizTexts
                  [] OTHER -> {<<>>, Prose(1), ExplObject(5)}}
\* a returned completion text, or None
NoText == [none |-> TRUE, text |-> <<>>]
Text(t) == [none |-> FALSE, text |-> t]
HasText(r) == ~r.none /\ r.text # <<>>


(***************************************************************************)
(* State                                                                    *)
(***************************************************************************)
VARIABLES
  client,               \* module global: "handle", or "None" (line 44)
  PDF_SUPPORT,          \* module global (lines 14-21)
  files,                \* request.files.getlist("files")
  pc,                   \* position of the request handler
  idx,                  \* number of files the loop of line 253 has handled
  extracted,            \* the value extract_text_from_file gave per file
  combined_text, processed_files, errors,
  explanation_text, explanation_for_storage,
  quiz_text,
  quiz,                 \* the locals of lines 376-415, see QuizStep
  response,
  api_pc, api_tag, api_prompt, api_result,
  api_outcome,          \* what the completion API did with the last request
  calls,                \* the calls of call_openai_api, in order
  requests,             \* the requests sent to the completion API, in order
  co_pc, co_text, co_is_list, co_result

reqvars == <<files, pc, idx, extracted, combined_text, processed_files, errors,
             explanation_text, explanation_for_storage, quiz_text, quiz,
             response>>
apivars == <<api_pc, api_tag, api_prompt, api_result, api_outcome, calls,
             requests>>
covars == <<co_pc, co_text, co_is_list, co_result>>
globals == <<client, PDF_SUPPORT>>
vars == <<globals, reqvars, apivars, covars>>

NoQuiz ==
  [exc |-> "", temp_quiz_data |-> None, valid_questions |-> <<>>,
   quiz_data |-> None, quiz_status_message |-> [msg |-> "", parsed |-> 0]]
NoResponse ==
  [status |-> 0, success |-> FALSE, error |-> "", explanation |-> None,
   quiz |-> None, files_processed |-> <<>>,
   quiz_status |-> [msg |-> "", parsed |-> 0], extraction_errors |-> <<>>]
ErrorResponse(code, msg) == [NoResponse EXCEPT !.status = code, !.error = msg]

ReqIdle ==
  /\ files = <<>> /\ pc = "idle" /\ idx = 0 /\ extracted = <<>>
  /\ combined_text = EmptyTxt /\ processed_files = <<>> /\ errors = <<>>
  /\ explanation_text = NoText /\ explanation_for_storage = None
  /\ quiz_text = NoText /\ quiz = NoQuiz
  /\ response = NoResponse
ApiIdle ==
  /\ api_pc = "idle" /\ api_tag = "" /\ api_prompt = EmptyTxt
  /\ api_result = NoText /\ api_outcome = ApiNoContent
  /\ calls = <<>> /\ requests = <<>>
CoIdle ==
  /\ co_pc = "idle" /\ co_text = <<>> /\ co_is_list = FALSE
  /\ co_result = Returned(None, 0)

(***************************************************************************)
(* call_openai_api (lines 181-224)                                          *)
(***************************************************************************)
\* the caller's side of the call: control passes to call_openai_api
Call(tag, prompt) ==
  /\ api_pc' = "entered"
  /\ api_tag' = tag
  /\ api_prompt' = prompt
  /\ api_result' = NoText
  /\ calls' = Append(calls, tag)
  /\ UNCHANGED <<requests, api_outcome>>
\* the guard of line 188 without its strip()
ApiRejectsOnlyEmpty(cl, prompt) == cl = "None" \/ prompt.len = 0
\* lines 183-190: the guards, then the one request of line 203
ApiRejects(cl, prompt) == cl = "None" \/ IsBlank(prompt)
ApiEnter ==
  /\ api_pc = "entered"
  /\ IF ApiRejects(client, api_prompt)
     THEN /\ api_pc' = "returned"
          /\ api_result' = NoText
          /\ UNCHANGED requests
     ELSE /\ api_pc' = "in_flight"
          /\ requests' = Append(requests, api_tag)
          /\ UNCHANGED api_result
  /\ UNCHANGED <<api_tag, api_prompt, api_outcome, calls, globals, reqvars,
                 covars>>
\* lines 203-224: the request completes, or raises and is caught
ApiResult(o) == IF o.raises \/ o.none THEN NoText ELSE Text(o.text)
ApiReturn ==
  /\ api_pc = "in_flight"
  /\ \E o \in ApiOutcomes(api_tag) :
       /\ api_outcome' = o
       /\ api_result' = ApiResult(o)
  /\ api_pc' = "returned"
  /\ UNCHANGED <<api_tag, api_prompt, calls, requests, globals, reqvars, covars>>

(***************************************************************************)
(* process_files (lines 240-435)                                            *)
(***************************************************************************)
\* lines 242-247
Start ==
  /\ pc = "start"
  /\ IF files = <<>>
     THEN /\ response' = ErrorResponse(400, "No files provided")
          /\ pc' = "done"
     ELSE IF files[1].filename = ""
     THEN /\ response' = ErrorResponse(400, "No files selected")
          /\ pc' = "done"
     ELSE /\ pc' = "extract"
          /\ UNCHANGED response
  /\ UNCHANGED <<files, idx, extracted, combined_text, processed_files, errors,
                 explanation_text, explanation_for_storage, quiz_text, quiz,
                 globals, apivars, covars>>

\* "\n\n--- Content from {filename} ---\n\n"
Header(f) == Txt(25 + f.secure_len, 2, FALSE)
ErrorEntry(f, kind) == [file |-> f.filename, kind |-> kind]
NotCalled == [raised |-> FALSE, text |-> EmptyTxt, called |-> FALSE]
\* lines 253-272, one iteration of the loop
ExtractFile ==
  /\ pc = "extract"
  /\ idx < Len(files)
  /\ LET file == files[idx + 1] IN
     IF file.filename # "" /\ allowed_file(file)
     THEN
       LET r == extract_text_from_file(file, PDF_SUPPORT)
           text == r.text
       IN
       /\ extracted' = Append(extracted, [raised |-> r.raised, text |-> r.text,
                                          called |-> TRUE])
       /\ IF r.raised
          THEN /\ errors' = Append(errors, ErrorEntry(file, "processing_error"))
               /\ UNCHANGED <<combined_text, processed_files>>
          ELSE IF text.len > 0 /\ StartsWithBracket(text)
          THEN /\ errors' = Append(errors, ErrorEntry(file, "diagnostic"))
               /\ UNCHANGED <<combined_text, processed_files>>
          ELSE IF text.len > 0
          THEN /\ combined_text' = Concat(combined_text,
                                          Concat(Header(file), text))
               /\ processed_files' = Append(processed_files, file.filename)
               /\ UNCHANGED errors
          ELSE /\ errors' = Append(errors, ErrorEntry(file, "empty"))
               /\ UNCHANGED <<combined_text, processed_files>>
     ELSE
       /\ extracted' = Append(extracted, NotCalled)
       /\ errors' = IF file.filename # ""
                    THEN Append(errors, ErrorEntry(file, "unsupported"))
                    ELSE errors
       /\ UNCHANGED <<combined_text, processed_files>>
  /\ idx' = idx + 1
  /\ UNCHANGED <<files, pc, explanation_text, explanation_for_storage,
                 quiz_text, quiz, response, globals, apivars, covars>>

TRUNC_CONTEXT_MARK == Txt(54, 2, FALSE)
\* the characters of the prompt templates around {combined_text}
EXPLANATION_PROMPT_LEN == 1535
QUIZ_PROMPT_LEN == 911
Prompt(template_len, context) ==
  [len |-> template_len + context.len, ws |-> 0, br |-> FALSE]
\* lines 274-326: the 400 response, or truncation and the explanation call
BuildContext ==
  /\ pc = "extract"
  /\ idx = Len(files)
  /\ IF IsBlank(combined_text)
     THEN /\ response' = ErrorResponse(400, "Could not extract usable text from files.")
          /\ pc' = "done"
          /\ UNCHANGED <<combined_text, apivars>>
     ELSE
       LET ctx == IF combined_text.len > MAX_API_CONTEXT_SIZE
                  THEN Concat(Prefix(combined_text, MAX_API_CONTEXT_SIZE),
                              TRUNC_CONTEXT_MARK)
                  ELSE combined_text
       IN
       /\ combined_text' = ctx
       /\ Call("explanation", Prompt(EXPLANATION_PROMPT_LEN, ctx))
       /\ pc' = "explanation"
       /\ UNCHANGED response
  /\ UNCHANGED <<files, idx, extracted, processed_files, errors,
                 explanation_text, explanation_for_storage, quiz_text, quiz,
                 globals, covars>>

\* lines 431-435: the handler's outermost except clause
InternalError == ErrorResponse(500, "internal")

\* explanation_text.split('\n\n'): the blocks, as strings
SplitBlocks(text) ==
  Bind(SelectSeq([i \in 1..Len(text) |-> i], LAMBDA i : text[i] = NLNL),
       LAMBDA seps :
    [b \in 1..(Len(seps) + 1) |->
       StrVal(IF (IF b = 1 THEN 1 ELSE seps[b - 1] + 1)
                   <= (IF b = Len(seps) + 1 THEN Len(text) ELSE seps[b] - 1)
              THEN "text" ELSE "")])
Take(xs, n) == SubSeq(xs, 1, Min(Len(xs), n))
PLACEHOLDER == StrVal("Unable to generate explanation or parse response.")
FAILED_TOPIC == StrVal("Study Material Analysis (Failed to Parse JSON)")
\* lines 332-337
FallbackExplanation(text) ==
  DictVal(<<Pair("topic", FAILED_TOPIC),
            Pair("content",
                 IF HasText(text)
                 THEN ListVal(Take(SplitBlocks(text.text), FALLBACK_BLOCKS))
                 ELSE ListVal(<<PLACEHOLDER>>))>>)
\* lines 327-340: [exc, storage], the exception that escapes the coercer
\* (empty if none) and explanation_for_storage
ExplanationStep(text) ==
  Bind(IF HasText(text)
       THEN clean_and_parse_json(text.text, FALSE)
       ELSE Returned(None, 0),
       LAMBDA parsed :
    Bind(IF parsed.val = None THEN FallbackExplanation(text) ELSE parsed.val,
         LAMBDA explanation_data :
      [exc |-> parsed.exc,
       storage |-> IF isinstance(explanation_data, "dict")
                   THEN ListVal(<<explanation_data>>)
                   ELSE explanation_data]))
\* lines 326-375: the explanation is coerced or replaced, the quiz is called
HandleExplanation ==
  /\ pc = "explanation"
  /\ api_pc = "returned"
  /\ explanation_text' = api_result
  /\ \E step \in {ExplanationStep(api_result)} :
     IF step.exc # ""
     THEN /\ response' = InternalError
          /\ pc' = "done"
          /\ UNCHANGED <<explanation_for_storage, apivars>>
     ELSE /\ explanation_for_storage' = step.storage
          /\ Call("quiz", Prompt(QUIZ_PROMPT_LEN, combined_text))
          /\ pc' = "quiz"
          /\ UNCHANGED response
  /\ UNCHANGED <<files, idx, extracted, combined_text, processed_files, errors,
                 quiz_text, quiz, globals, covars>>

\* lines 384-390
Unwrap(x) ==
  IF isinstance(x, "list") THEN x
  ELSE IF isinstance(x, "dict") /\ HasKey(x, "quiz")
          /\ isinstance(Get(x, "quiz"), "list")
  THEN Get(x, "quiz")
  ELSE IF isinstance(x, "dict") /\ HasKey(x, "questions")
          /\ isinstance(Get(x, "questions"), "list")
  THEN Get(x, "questions")
  ELSE ListVal(<<x>>)
\* lines 395-400
IsValidQuestion(q) ==
  /\ isinstance(q, "dict")
  /\ Truthy(Get(q, "question"))
  /\ Truthy(Get(q, "options"))
  /\ Truthy(Get(q, "correctAnswer"))
  /\ isinstance(Get(q, "options"), "list")
  /\ Len(Get(q, "options").items) >= MIN_OPTIONS
\* lines 392-404
FilterQuestions(x) == SelectSeq(x.items, IsValidQuestion)
\* the size check of line 407 off by one
NeedsFallbackOffByOne(qd) == qd = None \/ Len(qd.items) <= MIN_QUIZ_SIZE
\* line 407
NeedsFallback(qd) == qd = None \/ Len(qd.items) < MIN_QUIZ_SIZE
\* lines 409-415
FALLBACK_QUESTION ==
  DictVal(<<Pair("question", StrVal("Quiz generation failed (Error: Not enough valid questions generated).")),
            Pair("options", ListVal(<<StrVal("A) Please check the content."),
                                      StrVal("B) Try re-uploading the file."),
                                      StrVal("C) The material might be too short or complex."),
                                      StrVal("D) All of the above.")>>)),
            Pair("correctAnswer", StrVal("D"))>>)
FAILED_STATUS == "Failed to generate enough valid questions"
\* lines 376-415: the exception that escapes the coercer (empty if none)
\* and the locals as they stand at line 417
QuizStep(text) ==
  Bind(IF HasText(text)
       THEN clean_and_parse_json(text.text, TRUE)
       ELSE Returned(None, 0),
       LAMBDA parsed :
    Bind(IF Truthy(parsed.val) THEN Unwrap(parsed.val) ELSE None,
         LAMBDA temp :
      Bind(IF temp = None THEN <<>> ELSE FilterQuestions(temp), LAMBDA valid :
        Bind(IF temp = None THEN None ELSE ListVal(valid), LAMBDA qd :
          [exc |-> parsed.exc,
           temp_quiz_data |-> temp,
           valid_questions |-> valid,
           quiz_data |-> IF NeedsFallback(qd) THEN ListVal(<<FALLBACK_QUESTION>>)
                         ELSE qd,
           quiz_status_message |->
             IF NeedsFallback(qd)
             THEN [msg |-> FAILED_STATUS,
                   parsed |-> IF Truthy(qd) THEN Len(qd.items) ELSE 0]
             ELSE [msg |-> "Success", parsed |-> 0]]))))
\* lines 375-429: the quiz is coerced, filtered or replaced, and the
\* success response is returned
HandleQuiz ==
  /\ pc = "quiz"
  /\ api_pc = "returned"
  /\ quiz_text' = api_result
  /\ quiz' = QuizStep(api_result)
  /\ response' =
       IF quiz'.exc # ""
       THEN InternalError
       ELSE [status |-> 200, success |-> TRUE, error |-> "",
             explanation |-> explanation_for_storage,
             quiz |-> quiz'.quiz_data,
             files_processed |-> processed_files,
             quiz_status |-> quiz'.quiz_status_message,
             extraction_errors |-> errors]
  /\ pc' = "done"
  /\ UNCHANGED <<files, idx, extracted, combined_text, processed_files, errors,
                 explanation_text, explanation_for_storage, globals, apivars,
                 covars>>

Requests == SeqsUpTo(FileSet, MaxFiles)
Init ==
  /\ client \in {"handle", "None"}
  /\ PDF_SUPPORT \in BOOLEAN
  /\ files \in Requests
  /\ pc = "start" /\ idx = 0 /\ extracted = <<>>
  /\ combined_text = EmptyTxt /\ processed_files = <<>> /\ errors = <<>>
  /\ explanation_text = NoText /\ explanation_for_storage = None
  /\ quiz_text = NoText /\ quiz = NoQuiz
  /\ response = NoResponse
  /\ ApiIdle
  /\ CoIdle
Next ==
  \/ Start
  \/ ExtractFile
  \/ BuildContext
  \/ ApiEnter
  \/ ApiReturn
  \/ HandleExplanation
  \/ HandleQuiz
Spec == Init /\ [][Next]_vars


(***************************************************************************)
(* call_openai_api on its own: any prompt, either state of the client       *)
(***************************************************************************)
Prompts == UNION {{Txt(n, w, FALSE) : w \in 0..n} : n \in 0..MaxPromptLen}
InitApi ==
  /\ client \in {"handle", "None"}
  /\ PDF_SUPPORT = TRUE
  /\ ReqIdle
  /\ CoIdle
  /\ api_pc = "entered" /\ api_tag = "direct"
  /\ api_prompt \in Prompts
  /\ api_result = NoText /\ api_outcome = ApiNoContent
  /\ calls = <<"direct">> /\ requests = <<>>
NextApi ==
  \/ ApiEnter
  \/ ApiReturn
SpecApi == InitApi /\ [][NextApi]_vars

(***************************************************************************)
(* clean_and_parse_json on its own                                          *)
(***************************************************************************)
CoreAlphabet ==
  {P("{"), P("}"), P("["), P("]"), P(","), P(":"), S("a"), CS("a"), N("0"),
   SP, NLNL, NBSP, W("x"), FENCE, DEEP, BIGINT}
Atoms == {<<S("a")>>, <<N("0")>>, <<N("-1")>>}
Members ==
  {Member(key, x) :
     key \in {"a", "b"},
     x \in Atoms \cup {ArrayText(<<>>), ArrayText(<<<<S("a")>>, <<N("0")>>>>),
                       ObjectText(<<Member("a", <<S("a")>>)>>)}}
\* well-formed objects of one or two members
Objects == {ObjectText(ms) : ms \in SeqsUpTo(Members, 2) \ {<<>>}}
\* the object with a comma put directly before its closing brace
TrailingComma(obj) == SubSeq(obj, 1, Len(obj) - 1) \o <<P(","), P("}")>>
Befores == {<<>>, <<FENCE, W("json"), NLNL>>, <<W("x"), SP>>,
            <<W("x"), NLNL, FENCE, NLNL>>}
Afters == {<<>>, <<NLNL, FENCE>>, <<SP, W("x")>>, <<NLNL, FENCE, NLNL, W("x")>>}
Wrapped(cores) == {b \o c \o a : b \in Befores, c \in cores, a \in Afters}
TrailingCommaTexts == Wrapped({TrailingComma(obj) : obj \in Objects})
CoerceTexts ==
  SeqsUpTo(CoreAlphabet, MaxCoreLen)
  \cup Wrapped(Objects)
  \cup TrailingCommaTexts
InitCoerce ==
  /\ client = "handle"
  /\ PDF_SUPPORT = TRUE
  /\ ReqIdle
  /\ ApiIdle
  /\ co_pc = "call"
  /\ co_text \in CoerceTexts
  /\ co_is_list \in BOOLEAN
  /\ co_result = Returned(None, 0)
\* the call returns a value, or None
CoerceReturns ==
  /\ co_pc = "call"
  /\ co_result' = clean_and_parse_json(co_text, co_is_list)
  /\ co_result'.exc = ""
  /\ co_pc' = "returned"
  /\ UNCHANGED <<co_text, co_is_list, globals, reqvars, apivars>>
\* an exception leaves the call
CoerceRaises ==
  /\ co_pc = "call"
  /\ co_result' = clean_and_parse_json(co_text, co_is_list)
  /\ co_result'.exc # ""
  /\ co_pc' = "raised"
  /\ UNCHANGED <<co_text, co_is_list, globals, reqvars, apivars>>
NextCoerce ==
  \/ CoerceReturns
  \/ CoerceRaises
SpecCoerce == InitCoerce /\ [][NextCoerce]_vars


(***************************************************************************)
(* Properties                                                               *)
(***************************************************************************)
Done == pc = "done"
Succeeded == Done /\ response.status = 200
FallbackQuiz == ListVal(<<FALLBACK_QUESTION>>)

\* C1: a request in which at least one file yielded usable text ends with
\* the success object, whatever the completion calls and the coercions did;
\* if the quiz call gave no text at all, the quiz is the one fallback
\* question and quiz_status is not "Success".
C1_SuccessWheneverTextExtracted ==
  (Done /\ processed_files # <<>>) =>
    /\ response.status = 200
    /\ response.success
    /\ (~HasText(quiz_text) =>
          /\ response.quiz = FallbackQuiz
          /\ response.quiz_status.msg # "Success")

\* C2: in a success response the quiz is the single fallback question
\* exactly when fewer than 5 questions of the coerced completion pass the
\* filter (none, when there is no completion text or the coercion fails);
\* otherwise it is the passing questions in their original order; it is
\* never empty.
C2_PassingQuestions ==
  IF quiz.temp_quiz_data = None THEN <<>>
  ELSE SelectSeq(quiz.temp_quiz_data.items, IsValidQuestion)
C2_FallbackIffFewerThanFive ==
  Succeeded =>
    /\ (~HasText(quiz_text) => quiz.temp_quiz_data = None)
    /\ (response.quiz = FallbackQuiz) <=> (Len(C2_PassingQuestions) < 5)
    /\ (Len(C2_PassingQuestions) >= 5 =>
          response.quiz = ListVal(C2_PassingQuestions))
    /\ Len(response.quiz.items) >= 1
\* a completion of five questions, four of which pass: the fallback is used
C2_Witness ==
  /\ Succeeded
  /\ quiz.temp_quiz_data # None
  /\ Len(quiz.temp_quiz_data.items) = 5
  /\ Len(C2_PassingQuestions) = 4
  /\ response.quiz = FallbackQuiz

\* C3: in a success response the explanation is a one-element list whose
\* element has a topic and a content of exactly 5 strings, or, exactly when
\* there is no completion text, the single placeholder string.
C3_ExplanationShape ==
  Succeeded =>
    /\ isinstance(response.explanation, "list")
    /\ Len(response.explanation.items) = 1
    /\ LET d == response.explanation.items[1]
           c == Get(d, "content")
       IN
       /\ isinstance(d, "dict")
       /\ HasKey(d, "topic")
       /\ HasKey(d, "content")
       /\ isinstance(c, "list")
       /\ \A i \in 1..Len(c.items) : isinstance(c.items[i], "str")
       /\ IF HasText(explanation_text)
          THEN Len(c.items) = 5
          ELSE c.items = <<PLACEHOLDER>>

\* C4: every question of the quiz of a success response has a question
\* string, exactly 4 option strings and a correctAnswer among A, B, C, D.
C4_IsQuizQuestion(q) ==
  /\ isinstance(q, "dict")
  /\ isinstance(Get(q, "question"), "str")
  /\ isinstance(Get(q, "options"), "list")
  /\ Len(Get(q, "options").items) = 4
  /\ \A i \in 1..Len(Get(q, "options").items) :
       isinstance(Get(q, "options").items[i], "str")
  /\ isinstance(Get(q, "correctAnswer"), "str")
  /\ Get(q, "correctAnswer").s \in {"A", "B", "C", "D"}
C4_QuizQuestionShape ==
  Succeeded =>
    \A i \in 1..Len(response.quiz.items) :
      C4_IsQuizQuestion(response.quiz.items[i])

\* C5: the combined context embedded in the prompts is at most
\* MAX_API_CONTEXT_SIZE characters long.
C5_ContextWithinBudget ==
  calls # <<>> => combined_text.len <= MAX_API_CONTEXT_SIZE

\* C6: a text holding an object that is valid but for one comma directly
\* before its closing brace, fenced or not, with or without prose around
\* it, is coerced to the object its text without that comma parses to,
\* through the repaired second parse.
C6_WithoutFinalComma(text) ==
  LET e == RFind(text, FALSE) IN
  SubSeq(text, 1, e - 2) \o SubSeq(text, e, Len(text))
C6_TrailingCommaRecovered ==
  (co_pc # "call" /\ ~co_is_list /\ co_text \in TrailingCommaTexts) =>
    /\ co_pc = "returned"
    /\ co_result.val # None
    /\ co_result.val =
         clean_and_parse_json(C6_WithoutFinalComma(co_text), FALSE).val
    /\ co_result.attempts = 2

\* C7: no exception leaves clean_and_parse_json; it returns None for an
\* empty text and for a text without the opening bracket, without the
\* closing bracket, or whose last closing bracket comes before its first
\* opening bracket; it parses at most twice.
C7_Opens == {i \in 1..Len(co_text) : HoldsOpen(co_text[i], co_is_list)}
C7_Closes == {i \in 1..Len(co_text) : HoldsClose(co_text[i], co_is_list)}
C7_CoercerNeverRaises ==
  co_pc # "call" =>
    /\ co_pc = "returned"
    /\ co_result.exc = ""
    /\ co_result.attempts <= 2
    /\ (\/ co_text = <<>>
        \/ C7_Opens = {}
        \/ C7_Closes = {}
        \/ \A i \in C7_Opens, j \in C7_Closes : j < i)
       => co_result.val = None

\* C8: call_openai_api sends nothing and returns None when the prompt is
\* empty or only whitespace or the client is None; otherwise it sends
\* exactly one request, returns the completion text when the request
\* succeeds and None when it raises.
C8_Rejected == client = "None" \/ api_prompt.ws = api_prompt.len
C8_GuardsAndSingleRequest ==
  /\ api_pc \in {"entered", "in_flight", "returned"}
  /\ Len(requests) <= 1
  /\ C8_Rejected =>
       /\ requests = <<>>
       /\ api_pc # "in_flight"
       /\ api_pc = "returned" => api_result = NoText
  /\ (~C8_Rejected /\ api_pc = "returned") =>
       /\ Len(requests) = 1
       /\ api_outcome.raises => api_result = NoText
       /\ (~api_outcome.raises /\ ~api_outcome.none) =>
            api_result = Text(api_outcome.text)
\* a prompt of whitespace only, with a working client, was turned away
C8_Witness ==
  /\ api_pc = "returned"
  /\ client = "handle"
  /\ api_prompt.len > 0
  /\ api_prompt.ws = api_prompt.len
  /\ requests = <<>>
  /\ api_result = NoText

\* C9: completion calls start only after every file was extracted; there
\* are at most two, the explanation call and then the quiz call, the second
\* starting after the first has returned; once the explanation call was
\* made the quiz call is made too, whatever became of the explanation; a
\* request answered with 400 makes no call.
C9_CallOrder ==
  /\ calls # <<>> => idx = Len(files)
  /\ calls \in {<<>>, <<"explanation">>, <<"explanation", "quiz">>}
  /\ (Len(calls) = 2 /\ api_pc # "returned") => pc = "quiz"
  /\ pc = "explanation" => calls = <<"explanation">>
  /\ (Done /\ calls # <<>>) => calls = <<"explanation", "quiz">>
  /\ (Done /\ response.status = 400) => calls = <<>>

\* C10: a PDF none of whose pages yields text, of any page count, is
\* extracted to a string starting with '[', and so is recorded in
\* extraction_errors and not in files_processed.
C10_TextlessPdfIsDiagnostic ==
  \A i \in 1..Len(extracted) :
    LET f == files[i] IN
    (/\ f.ext = "pdf"
     /\ extracted[i].called
     /\ ~extracted[i].raised
     /\ f.text_from >= f.total_pages)
    =>
    /\ StartsWithBracket(extracted[i].text)
    /\ \A j \in 1..Len(processed_files) : processed_files[j] # f.filename
    /\ \E j \in 1..Len(errors) : errors[j].file = f.filename

====
